---- MODULE Spec2Model ----
(***************************************************************************)
(* Model of permeability/plotting.py: the figure-rendering routines for    *)
(* force, free-energy, diffusion and resistance profiles and for the       *)
(* autocorrelation views.                                                  *)
(*                                                                         *)
(* Numbers.  Array entries are exact rationals <<num, den>> (den > 0,      *)
(* lowest terms) or, for sweep data and coordinates, integers.  A standard *)
(* deviation is kept as its radicand: [sqrt |-> r] stands for the          *)
(* principal root of the rational r.  mean + std_err and mean - std_err    *)
(* are the numbers a + s*sqrt(q), kept as [a |-> a, s |-> s, q |-> q] with *)
(* s in {-1, 0, 1} and s = 0 exactly when q is zero.                       *)
(*                                                                         *)
(* pyplot.  figs is pyplot's figure registry (figure k is figs[k]; every   *)
(* figure holds the single axes plt.subplots() gives it), gcf the current  *)
(* figure, files the log of fig.savefig writes.  The backend is            *)
(* non-interactive: plt.show() changes nothing.                            *)
(***************************************************************************)
EXTENDS Integers, Sequences, FiniteSets, TLC

VARIABLES figs, gcf, files, acfs, handles, ncalls, last

vars == <<figs, gcf, files, acfs, handles, ncalls, last>>

-----------------------------------------------------------------------------
(* Bounds of the explored inputs *)

MaxVal == 3
ZMax == 2
MaxSweeps == 2
NCols == 2
MaxSeqs == 3
AcfLen == 2
MaxAcfCalls == 2
MaxCalls == 3
MaxFigs == 2

-----------------------------------------------------------------------------
(* Exact arithmetic standing for the float arithmetic of numpy *)

Abs(x) == IF x < 0 THEN -x ELSE x

RECURSIVE GCD(_, _)
GCD(a, b) == IF b = 0 THEN a ELSE GCD(b, a % b)

RatNorm(n, d) ==
    LET g == GCD(Abs(n), Abs(d))
        sg == IF d < 0 THEN -1 ELSE 1
    IN  <<(sg * n) \div g, (sg * d) \div g>>

ToRat(x) == <<x, 1>>
RatAdd(p, q) == RatNorm(p[1] * q[2] + q[1] * p[2], p[2] * q[2])
RatSub(p, q) == RatNorm(p[1] * q[2] - q[1] * p[2], p[2] * q[2])
RatMul(p, q) == RatNorm(p[1] * q[1], p[2] * q[2])
RatDiv(p, q) == RatNorm(p[1] * q[2], p[2] * q[1])
RatInv(x) == RatNorm(1, x)

RECURSIVE SumSeq(_)
SumSeq(s) == IF Len(s) = 0 THEN 0 ELSE Head(s) + SumSeq(Tail(s))

RECURSIVE RatSum(_)
RatSum(s) == IF Len(s) = 0 THEN ToRat(0) ELSE RatAdd(Head(s), RatSum(Tail(s)))

-----------------------------------------------------------------------------
(* numpy arrays: [ndim |-> 0, v |-> x], [ndim |-> 1, v |-> <<..>>],        *)
(* [ndim |-> 2, v |-> << <<..>>, .. >>]                                    *)

Arr1(s) == [ndim |-> 1, v |-> s]
Arr2(m) == [ndim |-> 2, v |-> m]

Shape0(a) == Len(a.v)

NumCols(a) == IF a.ndim = 2 THEN Len(a.v[1]) ELSE Len(a.v)

Column(m, j) == [i \in 1..Len(m) |-> m[i][j]]

\* a.reshape((1, -1))
Reshape1N(a) == [ndim |-> 2, v |-> <<a.v>>]

\* np.atleast_1d, as the drawing calls apply it to their arguments
AtLeast1d(a) == IF a.ndim = 0 THEN <<a.v>> ELSE a.v

\* iteration over the first axis: rows of a matrix, scalars of a vector
Rows(a) == IF a.ndim = 2 THEN [i \in 1..Len(a.v) |-> Arr1(a.v[i])]
           ELSE [i \in 1..Len(a.v) |-> [ndim |-> 0, v |-> a.v[i]]]

\* np.mean of a sequence of integers: sum / count
MeanOf(s) == RatNorm(SumSeq(s), Len(s))

\* the radicand of np.std: mean(abs(x - x.mean())**2)
VarOf(s) ==
    LET mu == MeanOf(s)
        dev == [i \in 1..Len(s) |->
                  RatMul(RatSub(ToRat(s[i]), mu), RatSub(ToRat(s[i]), mu))]
    IN  RatDiv(RatSum(dev), ToRat(Len(s)))

\* np.mean(a, axis=0)
MeanAxis0(a) ==
    IF a.ndim = 2
    THEN Arr1([j \in 1..Len(a.v[1]) |-> MeanOf(Column(a.v, j))])
    ELSE [ndim |-> 0, v |-> MeanOf(a.v)]

\* np.std(a, axis=0)
StdAxis0(a) ==
    IF a.ndim = 2
    THEN Arr1([j \in 1..Len(a.v[1]) |-> [sqrt |-> VarOf(Column(a.v, j))]])
    ELSE [ndim |-> 0, v |-> [sqrt |-> VarOf(a.v)]]

\* the standard deviation left undivided
RootDivNone(r, n) == r

\* std / np.sqrt(n) for one entry
RootDiv(r, n) == [sqrt |-> RatDiv(r.sqrt, ToRat(n))]

\* np.std(a, axis=0) / np.sqrt(a.shape[0])
StdErr(a) ==
    LET sd == StdAxis0(a)
    IN  IF sd.ndim = 1
        THEN Arr1([j \in 1..Len(sd.v) |-> RootDiv(sd.v[j], Shape0(a))])
        ELSE [ndim |-> 0, v |-> RootDiv(sd.v, Shape0(a))]

\* one entry of  mean + err  and of  mean - err
SurdPlus(m, e) == [a |-> m, s |-> IF e.sqrt[1] = 0 THEN 0 ELSE 1, q |-> e.sqrt]
SurdMinus(m, e) == [a |-> m, s |-> IF e.sqrt[1] = 0 THEN 0 ELSE -1, q |-> e.sqrt]

\* mean + err  and  mean - err  on arrays of equal shape
ArrPlusErr(m, e) ==
    IF m.ndim = 1
    THEN Arr1([j \in 1..Len(m.v) |-> SurdPlus(m.v[j], e.v[j])])
    ELSE [ndim |-> 0, v |-> SurdPlus(m.v, e.v)]

ArrMinusErr(m, e) ==
    IF m.ndim = 1
    THEN Arr1([j \in 1..Len(m.v) |-> SurdMinus(m.v[j], e.v[j])])
    ELSE [ndim |-> 0, v |-> SurdMinus(m.v, e.v)]

\* value + error, value - error on integer vectors
VecAdd(x, y) == [j \in 1..Len(x) |-> x[j] + y[j]]
VecSub(x, y) == [j \in 1..Len(x) |-> x[j] - y[j]]

-----------------------------------------------------------------------------
(* The drawing surface: matplotlib figures, axes and pyplot's registry *)

CycleColors == <<"C0", "C1", "C2", "C3", "C4", "C5", "C6", "C7", "C8", "C9">>

Opaque == <<1, 1>>

\* the figure and its axes as plt.subplots() creates them
NewAxes ==
    [artists |-> <<>>, xlabel |-> "", ylabel |-> "",
     xscale |-> "linear", yscale |-> "linear", grid |-> FALSE,
     xlim |-> <<>>, ybottom |-> <<>>, ytop |-> <<>>,
     legend |-> FALSE, pad |-> 0, ncolor |-> 0, tight |-> FALSE]

\* the colour the next automatically coloured line of axes a gets
NextColor(a) == CycleColors[(a.ncolor % Len(CycleColors)) + 1]

Raise(st) == [st EXCEPT !.raised = TRUE]

\* fig, ax = plt.subplots(): a new figure, which becomes the current one
Subplots(st) ==
    [st EXCEPT !.figs = Append(st.figs, NewAxes), !.gcf = Len(st.figs) + 1]

\* ax.plot / ax.semilogy / ax.semilogx / ax.loglog: the scale is set first,
\* then the line is added; x and y of different length raise ValueError
AxPlot(st, c) ==
    LET a == st.figs[c.ax]
        scaled == [a EXCEPT !.xscale = IF c.logx THEN "log" ELSE a.xscale,
                            !.yscale = IF c.logy THEN "log" ELSE a.yscale]
        auto == c.color = "auto"
        line == [kind |-> "line", role |-> c.role, x |-> c.x,
                 y1 |-> c.y, y2 |-> c.y, label |-> c.label,
                 color |-> IF auto THEN NextColor(a) ELSE c.color,
                 linestyle |-> c.linestyle, alpha |-> c.alpha,
                 zorder |-> c.zorder]
    IN  IF Len(c.x) # Len(c.y)
        THEN Raise([st EXCEPT !.figs[c.ax] = scaled])
        ELSE [st EXCEPT !.figs[c.ax] =
                 [scaled EXCEPT !.artists = Append(a.artists, line),
                                !.ncolor = IF auto THEN a.ncolor + 1
                                           ELSE a.ncolor]]

\* numpy broadcasting of one-dimensional operands: a length-1 operand
\* stretches, any other difference of lengths raises ValueError
Broadcastable(n, y) == Len(y) = n \/ Len(y) = 1
BroadcastTo(n, y) == IF Len(y) = n THEN y ELSE [j \in 1..n |-> y[1]]

\* ax.fill_between(x, y1, y2, facecolor=..., edgecolor=..., alpha=...)
AxFillBetween(st, c) ==
    LET a == st.figs[c.ax]
        n == Len(c.x)
        band == [kind |-> "band", role |-> "band", x |-> c.x,
                 y1 |-> BroadcastTo(n, c.y1), y2 |-> BroadcastTo(n, c.y2),
                 label |-> "", color |-> c.color, linestyle |-> "-",
                 alpha |-> c.alpha, zorder |-> 1]
    IN  IF ~(Broadcastable(n, c.y1) /\ Broadcastable(n, c.y2))
        THEN Raise(st)
        ELSE [st EXCEPT !.figs[c.ax].artists = Append(a.artists, band)]

\* limits left at the lower bound only
PltXlimLowerOnly(st, c) == [st EXCEPT !.figs[st.gcf].xlim = <<c.lo, c.lo>>]

\* plt.xlim(lo, hi): the limits of the CURRENT axes (plt.gca())
PltXlim(st, c) == [st EXCEPT !.figs[st.gcf].xlim = <<c.lo, c.hi>>]

\* plt.ylim(lo, hi): the limits of the current axes
PltYlim(st, c) ==
    [st EXCEPT !.figs[st.gcf].ybottom = <<c.lo>>, !.figs[st.gcf].ytop = <<c.hi>>]

\* a save that writes nothing
FigSavefigNothing(st, c) == st

\* fig.savefig(path): one more file written
FigSavefig(st, c) ==
    [st EXCEPT !.files = Append(st.files, [path |-> c.path, fig |-> c.fig])]

\* racf /= racf[0]: the row of the caller's array is divided in place
InplaceNormalize(st, c) ==
    LET row == st.acfs[c.i]
    IN  [st EXCEPT !.acfs[c.i] = [j \in 1..Len(row) |-> RatDiv(row[j], row[1])]]

PlotCmd(ax, x, y, role, label, color, linestyle, alpha, zorder, logx, logy) ==
    [op |-> "plot", ax |-> ax, x |-> x, y |-> y, role |-> role,
     label |-> label, color |-> color, linestyle |-> linestyle,
     alpha |-> alpha, zorder |-> zorder, logx |-> logx, logy |-> logy]

\* one statement of a routine, applied to the interpreter state
Step(st, c) ==
    CASE c.op = "subplots" -> Subplots(st)
      [] c.op = "plot" -> AxPlot(st, c)
      [] c.op = "plot_row" -> AxPlot(st, [c EXCEPT !.y = st.acfs[c.i]])
      [] c.op = "fill_between" -> AxFillBetween(st, c)
      [] c.op = "set_xlabel" -> [st EXCEPT !.figs[c.ax].xlabel = c.text]
      [] c.op = "set_ylabel" -> [st EXCEPT !.figs[c.ax].ylabel = c.text]
      [] c.op = "grid" -> [st EXCEPT !.figs[c.ax].grid = c.on]
      [] c.op = "tick_params" -> [st EXCEPT !.figs[c.ax].pad = c.pad]
      [] c.op = "legend" -> [st EXCEPT !.figs[c.ax].legend = TRUE]
      [] c.op = "set_ylim_bottom" -> [st EXCEPT !.figs[c.ax].ybottom = <<c.lo>>]
      [] c.op = "xlim" -> PltXlim(st, c)
      [] c.op = "ylim" -> PltYlim(st, c)
      [] c.op = "tight_layout" -> [st EXCEPT !.figs[c.fig].tight = TRUE]
      [] c.op = "savefig" -> FigSavefig(st, c)
      [] c.op = "idiv" -> InplaceNormalize(st, c)
      [] c.op = "show" -> st

\* the statements of a routine in order, up to the first one that raises
RECURSIVE Run(_, _)
Run(st, cmds) ==
    IF Len(cmds) = 0 \/ st.raised THEN st
    ELSE Run(Step(st, Head(cmds)), Tail(cmds))

\* the concatenation of a sequence of statement lists
RECURSIVE Flatten(_)
Flatten(ss) == IF Len(ss) = 0 THEN <<>> ELSE Head(ss) \o Flatten(Tail(ss))

-----------------------------------------------------------------------------
(* The routines of plotting.py, each as the list of its statements.  f is  *)
(* the number plt.subplots() gives the figure the routine creates.         *)

FillCmd(ax, x, y1, y2, color, alpha) ==
    [op |-> "fill_between", ax |-> ax, x |-> x, y1 |-> y1, y2 |-> y2,
     color |-> color, alpha |-> alpha]

\* mean line, standard-error band and sweep traces of plot_forces and
\* plot_free_energy_z
MeanAndSweeps(f, z_windows, data, plot_mean, sweep_alpha) ==
    LET mean == MeanAxis0(data)
        std_err == StdErr(data)
        rows == Rows(data)
    IN  (IF plot_mean
         THEN <<PlotCmd(f, z_windows, AtLeast1d(mean), "main", "", "auto",
                        "-", Opaque, 2, FALSE, FALSE),
                FillCmd(f, z_windows, AtLeast1d(ArrPlusErr(mean, std_err)),
                        AtLeast1d(ArrMinusErr(mean, std_err)),
                        "#a8a8a8", Opaque)>>
         ELSE <<>>)
        \o [i \in 1..Len(rows) |->
              PlotCmd(f, z_windows, AtLeast1d(rows[i]), "sweep", "", "auto",
                      "-", sweep_alpha, 0, FALSE, FALSE)]

plot_forces(f, z_windows, forces, fig_filename, z_units, force_units, plot_mean, sweep_alpha, grid) ==
    LET forces2 == IF forces.ndim = 1 THEN Reshape1N(forces) ELSE forces
        zmin == z_windows[1]
    IN  <<[op |-> "subplots"]>>
        \o MeanAndSweeps(f, z_windows, forces2, plot_mean, sweep_alpha)
        \o <<[op |-> "set_xlabel", ax |-> f, text |-> "z [" \o z_units \o "]"],
             [op |-> "set_ylabel", ax |-> f,
              text |-> "F(z) [" \o force_units \o "]"],
             [op |-> "grid", ax |-> f, on |-> grid],
             [op |-> "xlim", lo |-> zmin, hi |-> -zmin],
             [op |-> "tick_params", ax |-> f, pad |-> 8],
             [op |-> "tight_layout", fig |-> f],
             [op |-> "savefig", fig |-> f, path |-> fig_filename],
             [op |-> "show"]>>

plot_free_energy_z(f, z_windows, free_energy, fig_filename, z_units, energy_units, plot_mean, sweep_alpha, grid) ==
    LET free_energy2 == IF free_energy.ndim = 1 THEN Reshape1N(free_energy)
                        ELSE free_energy
        zmin == z_windows[1]
    IN  <<[op |-> "subplots"]>>
        \o MeanAndSweeps(f, z_windows, free_energy2, plot_mean, sweep_alpha)
        \o <<[op |-> "set_xlabel", ax |-> f, text |-> "z [" \o z_units \o "]"],
             [op |-> "set_ylabel", ax |-> f,
              text |-> "DeltaG(z) [" \o energy_units \o "]"],
             [op |-> "grid", ax |-> f, on |-> grid],
             [op |-> "xlim", lo |-> zmin, hi |-> -zmin],
             [op |-> "tick_params", ax |-> f, pad |-> 8],
             [op |-> "tight_layout", fig |-> f],
             [op |-> "savefig", fig |-> f, path |-> fig_filename],
             [op |-> "show"]>>

\* savitzky_golay(force_series, 15001, 3): a sequence as long as its input;
\* entry j is kept as the uninterpreted value of the filter at j
savitzky_golay(y, window_size, order) ==
    [j \in 1..Len(y) |-> [sg |-> y, at |-> j, window |-> window_size,
                          order |-> order]]

SmoothWindow == 15001
SmoothOrder == 3

plot_timeseries(f, time, forces, time_units, force_units, grid, fig_filename) ==
    LET ncol == Len(forces.v[1])
        series(k) == Column(forces.v, k)
    IN  <<[op |-> "subplots"]>>
        \o Flatten([k \in 1..ncol |->
              <<PlotCmd(f, time, series(k), "raw", "", "auto", "-", Opaque,
                        0, FALSE, FALSE),
                PlotCmd(f, time,
                        savitzky_golay(series(k), SmoothWindow, SmoothOrder),
                        "smooth", "", "auto", "-", Opaque, 2, FALSE, FALSE)>>])
        \o <<[op |-> "set_xlabel", ax |-> f,
              text |-> "time [" \o time_units \o "]"],
             [op |-> "set_ylabel", ax |-> f,
              text |-> "F_z(z) [" \o force_units \o "]"],
             [op |-> "grid", ax |-> f, on |-> grid],
             [op |-> "tick_params", ax |-> f, pad |-> 8],
             [op |-> "tight_layout", fig |-> f],
             [op |-> "savefig", fig |-> f, path |-> fig_filename],
             [op |-> "show"]>>

\* the parity test applied to the 1-based position
EvenPositionOneBased(k) == k % 2 = 0

\* np.mod(i, 2) == 0 for the 0-based index of the k-th sequence
EvenPosition(k) == (k - 1) % 2 = 0

\* the loop of the autocorrelation views over the n sequences of the
\* caller's array: normalise in place, draw every second one
AcfLoop(f, time, n, normalize, logx, logy) ==
    Flatten([k \in 1..n |->
        (IF normalize THEN <<[op |-> "idiv", i |-> k]>> ELSE <<>>)
        \o (IF EvenPosition(k)
            THEN <<[PlotCmd(f, time, <<>>, "acf", "", "auto", "-", Opaque,
                            2, logx, logy)
                    EXCEPT !.op = "plot_row"] @@ [i |-> k]>>
            ELSE <<>>)])

AcfTail(f, time, time_units, ylabel, grid, fig_filename) ==
    <<[op |-> "set_xlabel", ax |-> f, text |-> "t [" \o time_units \o "]"],
      [op |-> "set_ylabel", ax |-> f, text |-> ylabel],
      [op |-> "xlim", lo |-> time[1], hi |-> time[Len(time)]],
      [op |-> "grid", ax |-> f, on |-> grid],
      [op |-> "tick_params", ax |-> f, pad |-> 8],
      [op |-> "tight_layout", fig |-> f],
      [op |-> "savefig", fig |-> f, path |-> fig_filename]>>

plot_rot_acfs_time(f, time, n, time_units, normalize, grid, fig_filename) ==
    <<[op |-> "subplots"]>>
    \o AcfLoop(f, time, n, normalize, FALSE, FALSE)
    \o AcfTail(f, time, time_units, "$\\langle\\Theta$(t)$\\Theta$(0)$\\rangle$",
               grid, fig_filename)

plot_force_acfs_time(f, time, n, time_units, normalize, grid, fig_filename) ==
    <<[op |-> "subplots"]>>
    \o AcfLoop(f, time, n, normalize, TRUE, FALSE)
    \o AcfTail(f, time, time_units, "$\\langle\\Delta$F(t)$\\Delta$F(0)$\\rangle$",
               grid, fig_filename)

plot_int_acfs_time(f, time, n, time_units, grid, fig_filename) ==
    <<[op |-> "subplots"]>>
    \o AcfLoop(f, time, n, FALSE, TRUE, TRUE)
    \o AcfTail(f, time, time_units,
               "$\\int_0^t\\langle\\Delta$F(t')$\\Delta$F(0)$\\rangle$dt'",
               grid, fig_filename)

-----------------------------------------------------------------------------
(* The overlay routines take figax: 0 stands for (None, None), k > 0 for   *)
(* the pair (figure k, its axes) a former call returned.                   *)

\* the axes a call draws on: new when figax == (None, None)
FigAx(figax, f) == IF figax = 0 THEN f ELSE figax

\* a figure created whatever the caller supplied
CreateAlways(figax) == <<[op |-> "subplots"]>>

\* the statement creating the figure, when there is one
CreateIfNone(figax) == IF figax = 0 THEN <<[op |-> "subplots"]>> ELSE <<>>

\* line.get_color() of the line the call is about to add to axes ax
LineColor(figax) ==
    IF figax = 0 THEN NextColor(NewAxes) ELSE NextColor(figs[figax])

LegendIf(ax, addlegend) ==
    IF addlegend THEN <<[op |-> "legend", ax |-> ax]>> ELSE <<>>

\* the bulk value 3.86e-5 of the diffusion coefficient, and the span of
\* the dashed reference lines
BulkDiffusion == <<193, 5000000>>
RefSpan == 10

\* the upper limit 3e-4 of plt.ylim in plot_diffusion_coefficient_z
DiffusionYTop == <<3, 10000>>

\* the two dashed reference lines near the boundaries
ReferenceLines(ax, zmin) ==
    <<PlotCmd(ax, <<zmin, zmin + RefSpan>>, <<BulkDiffusion, BulkDiffusion>>,
              "reference", "", "r", "--", Opaque, 2, FALSE, FALSE),
      PlotCmd(ax, <<-zmin - RefSpan, -zmin>>, <<BulkDiffusion, BulkDiffusion>>,
              "reference", "", "r", "--", Opaque, 2, FALSE, FALSE)>>

plot_resistance_z(f, z_windows, resist, z_units, Res_units, fig_filename, grid, sys_name, figax, sweep_alpha, savefig, addlegend) ==
    LET ax == FigAx(figax, f)
        resist_mean == MeanAxis0(resist)
        resist_err == StdErr(resist)
        rows == Rows(resist)
        zmin == z_windows[1]
    IN  CreateIfNone(figax)
        \o <<PlotCmd(ax, z_windows, AtLeast1d(resist_mean), "main", sys_name,
                     "auto", "-", Opaque, 2, FALSE, TRUE),
             FillCmd(ax, z_windows,
                     AtLeast1d(ArrPlusErr(resist_mean, resist_err)),
                     AtLeast1d(ArrMinusErr(resist_mean, resist_err)),
                     "#a8a8a8", Opaque)>>
        \o [i \in 1..Len(rows) |->
              PlotCmd(ax, z_windows, AtLeast1d(rows[i]), "sweep", "", "auto",
                      "-", sweep_alpha, 0, FALSE, TRUE)]
        \o <<[op |-> "set_xlabel", ax |-> ax, text |-> "z [" \o z_units \o "]"],
             [op |-> "set_ylabel", ax |-> ax,
              text |-> "R(z) [" \o Res_units \o "]"],
             [op |-> "grid", ax |-> ax, on |-> grid],
             [op |-> "xlim", lo |-> zmin, hi |-> -zmin],
             [op |-> "tick_params", ax |-> ax, pad |-> 8]>>
        \o LegendIf(ax, addlegend)
        \o (IF savefig
            THEN <<[op |-> "tight_layout", fig |-> ax],
                   [op |-> "savefig", fig |-> ax, path |-> fig_filename]>>
            ELSE <<>>)

plot_diffusion_coefficient_z(f, z_windows, diffusion_coeff, diffusion_coeff_err, z_units, D_units, fig_filename, grid) ==
    LET zmin == z_windows[1]
    IN  <<[op |-> "subplots"],
          PlotCmd(f, z_windows, diffusion_coeff, "main", "", "auto", "-",
                  Opaque, 2, FALSE, FALSE)>>
        \o ReferenceLines(f, zmin)
        \o <<FillCmd(f, z_windows,
                     VecAdd(diffusion_coeff, diffusion_coeff_err),
                     VecSub(diffusion_coeff, diffusion_coeff_err),
                     "#a8a8a8", Opaque),
             [op |-> "set_xlabel", ax |-> f, text |-> "z [" \o z_units \o "]"],
             [op |-> "set_ylabel", ax |-> f,
              text |-> "D(z) [" \o D_units \o "]"],
             [op |-> "ylim", lo |-> ToRat(0), hi |-> DiffusionYTop],
             [op |-> "xlim", lo |-> zmin, hi |-> -zmin],
             [op |-> "tick_params", ax |-> f, pad |-> 8],
             [op |-> "grid", ax |-> f, on |-> grid],
             [op |-> "tight_layout", fig |-> f],
             [op |-> "savefig", fig |-> f, path |-> fig_filename]>>

BandAlpha == <<1, 5>>

plot_sym_diffusion_coefficient_z(f, z_windows, diffusion_coeff, diffusion_coeff_err, z_units, D_units, fig_filename, grid, sys_name, figax, savefig, addlegend) ==
    LET ax == FigAx(figax, f)
        zmin == z_windows[1]
    IN  CreateIfNone(figax)
        \o <<PlotCmd(ax, z_windows, diffusion_coeff, "main", sys_name, "auto",
                     "-", Opaque, 2, FALSE, TRUE)>>
        \o ReferenceLines(ax, zmin)
        \o <<FillCmd(ax, z_windows,
                     VecAdd(diffusion_coeff, diffusion_coeff_err),
                     VecSub(diffusion_coeff, diffusion_coeff_err),
                     LineColor(figax), BandAlpha),
             [op |-> "set_xlabel", ax |-> ax, text |-> "z [" \o z_units \o "]"],
             [op |-> "set_ylabel", ax |-> ax,
              text |-> "D(z) [" \o D_units \o "]"]>>
        \o LegendIf(ax, addlegend)
        \o <<[op |-> "xlim", lo |-> zmin, hi |-> -zmin],
             [op |-> "tick_params", ax |-> ax, pad |-> 8],
             [op |-> "grid", ax |-> ax, on |-> grid]>>
        \o (IF savefig
            THEN <<[op |-> "tight_layout", fig |-> ax],
                   [op |-> "savefig", fig |-> ax, path |-> fig_filename]>>
            ELSE <<>>)

plot_symmetrized_free_energy(f, z_windows, delta_G, delta_G_err, z_units, energy_units, fig_filename, grid, sys_name, figax, savefig, addlegend) ==
    LET ax == FigAx(figax, f)
        zmin == z_windows[1]
    IN  CreateIfNone(figax)
        \o <<PlotCmd(ax, z_windows, delta_G, "main", sys_name, "auto", "-",
                     Opaque, 2, FALSE, FALSE),
             FillCmd(ax, z_windows, VecAdd(delta_G, delta_G_err),
                     VecSub(delta_G, delta_G_err), LineColor(figax),
                     BandAlpha),
             [op |-> "set_xlabel", ax |-> ax, text |-> "z [" \o z_units \o "]"],
             [op |-> "set_ylabel", ax |-> ax,
              text |-> "DeltaG(z) [" \o energy_units \o "]"],
             [op |-> "grid", ax |-> ax, on |-> grid]>>
        \o LegendIf(ax, addlegend)
        \o <<[op |-> "xlim", lo |-> zmin, hi |-> -zmin],
             [op |-> "tick_params", ax |-> ax, pad |-> 8]>>
        \o (IF savefig
            THEN <<[op |-> "set_ylim_bottom", ax |-> ax, lo |-> ToRat(0)],
                   [op |-> "tight_layout", fig |-> ax],
                   [op |-> "savefig", fig |-> ax, path |-> fig_filename]>>
            ELSE <<>>)

\* the default kB = 1.9872041e-3, as mantissa and decimal exponent
BoltzmannDefault == [mantissa |-> 19872041, exp10 |-> -10]

\* np.exp(dG/(kB*T)), entry by entry, kept as the unevaluated quotient
ExpBeta(dG, T, kB) ==
    [j \in 1..Len(dG) |-> [exp |-> [num |-> dG[j], kB |-> kB, T |-> T]]]

plot_sym_exp_free_energy(f, z_windows, dG, dG_err, diffz, diffz_err, resist, resist_err, T, kB, z_units, fig_filename, grid, addlegend) ==
    LET zmin == z_windows[1]
    IN  <<[op |-> "subplots"],
          PlotCmd(f, z_windows, ExpBeta(dG, T, kB), "expG", "", "auto", "-",
                  Opaque, 2, FALSE, TRUE),
          PlotCmd(f, z_windows, [j \in 1..Len(diffz) |-> RatInv(diffz[j])],
                  "invD", "", "auto", "-", Opaque, 2, FALSE, TRUE),
          PlotCmd(f, z_windows, resist, "main", "", "auto", "-", Opaque, 2,
                  FALSE, FALSE),
          FillCmd(f, z_windows, VecAdd(resist, resist_err),
                  VecAdd(resist, resist_err), CycleColors[3], BandAlpha),
          [op |-> "set_xlabel", ax |-> f, text |-> "z [" \o z_units \o "]"],
          [op |-> "set_ylabel", ax |-> f, text |-> "1/D, exp(beta G)"],
          [op |-> "grid", ax |-> f, on |-> grid],
          [op |-> "xlim", lo |-> zmin, hi |-> -zmin],
          [op |-> "tick_params", ax |-> f, pad |-> 8],
          [op |-> "tight_layout", fig |-> f],
          [op |-> "savefig", fig |-> f, path |-> fig_filename]>>

-----------------------------------------------------------------------------
(* The caller: one call of a routine is one step.  last records the most   *)
(* recent call: its arguments, the axes it drew on, what it returned (0    *)
(* for None, k for the pair of figure k), whether it raised, and the state *)
(* of pyplot, of the files and of the caller's arrays when it was made.    *)

NoCall ==
    [op |-> "none", z |-> <<>>, data |-> <<>>, err |-> <<>>,
     normalize |-> FALSE, plot_mean |-> FALSE, figax |-> 0,
     hasflag |-> FALSE, savefig |-> FALSE, path |-> "", sys_name |-> "",
     ax |-> 0, ret |-> 0, raised |-> FALSE,
     pre |-> [figs |-> <<>>, nfiles |-> 0, acfs |-> <<>>, gcf |-> 0]]

St0 == [figs |-> figs, gcf |-> gcf, files |-> files, acfs |-> acfs,
        raised |-> FALSE]

\* run the statements cmds of a call with arguments args; retval is what
\* the routine returns when it completes
Commit(args, cmds, retval) ==
    LET st == Run(St0, cmds)
        ret == IF st.raised THEN 0 ELSE retval
    IN  /\ figs' = st.figs
        /\ gcf' = st.gcf
        /\ files' = st.files
        /\ acfs' = st.acfs
        /\ handles' = IF ret = 0 THEN handles ELSE handles \cup {ret}
        /\ ncalls' = ncalls + 1
        /\ last' = [(args @@ NoCall) EXCEPT
                      !.ret = ret, !.raised = st.raised,
                      !.pre = [figs |-> figs, nfiles |-> Len(files),
                               acfs |-> acfs, gcf |-> gcf]]

NewFig == Len(figs) + 1

DefaultAlpha == <<1, 2>>

DoPlotForces(z, forces, path, plot_mean) ==
    Commit([op |-> "plot_forces", z |-> z, data |-> forces, path |-> path,
            plot_mean |-> plot_mean, ax |-> NewFig],
           plot_forces(NewFig, z, forces, path, "A", "kcal/mol-A", plot_mean,
                       DefaultAlpha, TRUE),
           0)

DoPlotFreeEnergyZ(z, free_energy, path, plot_mean) ==
    Commit([op |-> "plot_free_energy_z", z |-> z, data |-> free_energy,
            path |-> path, plot_mean |-> plot_mean, ax |-> NewFig],
           plot_free_energy_z(NewFig, z, free_energy, path, "A", "kcal/mol",
                              plot_mean, DefaultAlpha, TRUE),
           0)

DoPlotTimeseries(time, forces, path) ==
    Commit([op |-> "plot_timeseries", z |-> time, data |-> forces,
            path |-> path, ax |-> NewFig],
           plot_timeseries(NewFig, time, forces, "ps", "kcal/mol-A", TRUE, path),
           0)

\* the time axis of the caller's autocorrelation sequences
TimeAxis == [j \in 1..Len(acfs[1]) |-> j]

DoPlotRotAcfsTime(normalize, path) ==
    Commit([op |-> "plot_rot_acfs_time", z |-> TimeAxis,
            normalize |-> normalize, path |-> path, ax |-> NewFig],
           plot_rot_acfs_time(NewFig, TimeAxis, Len(acfs), "ps", normalize,
                              TRUE, path),
           0)

DoPlotForceAcfsTime(normalize, path) ==
    Commit([op |-> "plot_force_acfs_time", z |-> TimeAxis,
            normalize |-> normalize, path |-> path, ax |-> NewFig],
           plot_force_acfs_time(NewFig, TimeAxis, Len(acfs), "ps", normalize,
                                TRUE, path),
           0)

DoPlotIntAcfsTime(path) ==
    Commit([op |-> "plot_int_acfs_time", z |-> TimeAxis, path |-> path,
            ax |-> NewFig],
           plot_int_acfs_time(NewFig, TimeAxis, Len(acfs), "ps", TRUE, path),
           0)

DoPlotResistanceZ(z, resist, path, sys_name, figax, savefig, addlegend) ==
    Commit([op |-> "plot_resistance_z", z |-> z, data |-> resist,
            path |-> path, sys_name |-> sys_name, figax |-> figax,
            hasflag |-> TRUE, savefig |-> savefig, ax |-> FigAx(figax, NewFig)],
           plot_resistance_z(NewFig, z, resist, "A", "s/cm2", path, TRUE,
                             sys_name, figax, DefaultAlpha, savefig, addlegend),
           FigAx(figax, NewFig))

DoPlotDiffusionCoefficientZ(z, d, derr, path) ==
    Commit([op |-> "plot_diffusion_coefficient_z", z |-> z, data |-> d,
            err |-> derr, path |-> path, ax |-> NewFig],
           plot_diffusion_coefficient_z(NewFig, z, d, derr, "A", "cm2/s",
                                        path, TRUE),
           0)

DoPlotSymDiffusionCoefficientZ(z, d, derr, path, sys_name, figax, savefig, addlegend) ==
    Commit([op |-> "plot_sym_diffusion_coefficient_z", z |-> z, data |-> d,
            err |-> derr, path |-> path, sys_name |-> sys_name,
            figax |-> figax, hasflag |-> TRUE, savefig |-> savefig,
            ax |-> FigAx(figax, NewFig)],
           plot_sym_diffusion_coefficient_z(NewFig, z, d, derr, "A", "cm2/s",
                path, TRUE, sys_name, figax, savefig, addlegend),
           FigAx(figax, NewFig))

DoPlotSymmetrizedFreeEnergy(z, dG, dGerr, path, sys_name, figax, savefig, addlegend) ==
    Commit([op |-> "plot_symmetrized_free_energy", z |-> z, data |-> dG,
            err |-> dGerr, path |-> path, sys_name |-> sys_name,
            figax |-> figax, hasflag |-> TRUE, savefig |-> savefig,
            ax |-> FigAx(figax, NewFig)],
           plot_symmetrized_free_energy(NewFig, z, dG, dGerr, "A", "kcal/mol",
                path, TRUE, sys_name, figax, savefig, addlegend),
           FigAx(figax, NewFig))

DoPlotSymExpFreeEnergy(z, dG, diffz, resist, resist_err, path) ==
    Commit([op |-> "plot_sym_exp_free_energy", z |-> z, data |-> resist,
            err |-> resist_err, path |-> path, ax |-> NewFig],
           plot_sym_exp_free_energy(NewFig, z, dG, resist_err, diffz,
                resist_err, resist, resist_err, 300, BoltzmannDefault,
                "A", path, TRUE, FALSE),
           0)

-----------------------------------------------------------------------------
(* The inputs the calls are explored on *)

\* ascending coordinate axes of n windows
ZAxes(n) ==
    {s \in [1..n -> -ZMax..ZMax] : \A i \in 1..(n - 1) : s[i] < s[i + 1]}

\* profiles of NCols windows: the cyclic shifts of 1, 2, .., MaxVal, so that
\* the samples at one window run over all of 1..MaxVal
Vecs == {[j \in 1..NCols |-> ((j + k) % MaxVal) + 1] : k \in 0..(MaxVal - 1)}

\* errors of NCols windows: the cyclic shifts of 0, 1, .., MaxVal
Errs == {[j \in 1..NCols |-> (j + k) % (MaxVal + 1)] : k \in 0..MaxVal}

\* sweep data: one sweep as a vector, or a matrix of 1..MaxSweeps sweeps;
\* a column of the matrices runs over all tuples of samples
SweepData ==
    {Arr1(v) : v \in Vecs}
    \cup UNION {{Arr2(m) : m \in [1..k -> Vecs]} : k \in 1..MaxSweeps}

ExampleAxis == <<-10, 0, 10>>
ExampleMatrix == Arr2(<< <<1, 2, 3>>, <<3, 2, 1>> >>)
ExampleRow == Arr1(<<3, 1, 2>>)
SkewAxis == <<-20, 0, 5>>
ShortAxis == <<-2, -1, 0, 1, 2>>
WideMatrix == Arr2(<< <<1, 2, 3, 1, 2, 3>>, <<3, 2, 1, 3, 2, 1>> >>)

\* representative data of NCols columns and representative axes, one of
\* NCols windows and one of NCols + 1; AllAxes also holds the axes of a
\* single window
RepVec == [j \in 1..NCols |-> ((j - 1) % MaxVal) + 1]
RepRev == [j \in 1..NCols |-> RepVec[NCols + 1 - j]]
RepErr == [j \in 1..NCols |-> (j - 1) % (MaxVal + 1)]
RepData == {Arr1(RepVec), Arr2(<<RepVec>>), Arr2(<<RepVec, RepRev>>)}
RepAxes == {[j \in 1..NCols |-> j - 1 - ZMax],
            [j \in 1..(NCols + 1) |-> j - 1 - ZMax]}

AllAxes == ZAxes(1) \cup ZAxes(NCols) \cup ZAxes(NCols + 1)

\* axis and sweep data of one call: every axis with representative data,
\* every data set with the representative axes, and the worked examples
SweepInputs ==
    (AllAxes \X RepData) \cup (RepAxes \X SweepData)
    \cup {<<ExampleAxis, ExampleMatrix>>, <<ExampleAxis, ExampleRow>>,
          <<SkewAxis, ExampleMatrix>>, <<ShortAxis, WideMatrix>>}

\* axis, profile and error of one call of a routine fed reduced data
ReducedInputs ==
    (AllAxes \X {RepVec} \X {RepErr}) \cup (RepAxes \X Vecs \X Errs)
    \cup {<<SkewAxis, <<3, 1, 2>>, <<1, 0, 2>> >>}

Paths == {"out.pdf", "fig.png"}
SysNames == {"DSPC", "DPPC"}

\* autocorrelation sequences: a positive zero-lag sample, then the decay
AcfFirst == {<<1, 2>>, <<1, 1>>, <<2, 1>>}
AcfRest == {<<1, 1>>, <<-1, 1>>}
AcfSeqs == {s \in [1..AcfLen -> AcfFirst \cup AcfRest] :
               s[1] \in AcfFirst /\ \A j \in 2..AcfLen : s[j] \in AcfRest}

\* the caller's collections: 1..MaxSeqs sequences, the i-th being a
\* sequence of AcfSeqs scaled by i
AcfInputs ==
    {[i \in 1..k |-> [j \in 1..AcfLen |-> RatMul(ToRat(i), s[j])]] :
        k \in 1..MaxSeqs, s \in AcfSeqs}

ExampleAcfs ==
    << << <<4, 1>>, <<2, 1>>, <<1, 1>>, <<1, 2>> >>,
       << <<2, 1>>, <<1, 1>>, <<0, 1>>, <<-1, 1>> >>,
       << <<8, 1>>, <<4, 1>>, <<2, 1>>, <<1, 1>> >> >>

\* the systems overlaid on shared figures, each with the arguments of its
\* calls: the second one is drawn with savefig=True, addlegend=True
Systems ==
    {[name |-> "DSPC", z |-> <<-2, 2>>, path |-> "dspc.pdf",
      sweeps |-> Arr2(<< <<1, 3>>, <<3, 1>> >>),
      value |-> <<1, 2>>, err |-> <<0, 1>>, finish |-> FALSE],
     [name |-> "DPPC", z |-> <<-1, 1>>, path |-> "dppc.pdf",
      sweeps |-> Arr2(<< <<2, 2>> >>),
      value |-> <<3, 1>>, err |-> <<1, 1>>, finish |-> TRUE]}

-----------------------------------------------------------------------------
(* One call of any routine in a fresh interpreter *)

InitCall ==
    /\ figs = <<>>
    /\ gcf = 0
    /\ files = <<>>
    /\ acfs = ExampleAcfs
    /\ handles = {}
    /\ ncalls = 0
    /\ last = NoCall

CallPlotForces ==
    /\ ncalls = 0
    /\ \E in \in SweepInputs, path \in Paths, plot_mean \in BOOLEAN :
          DoPlotForces(in[1], in[2], path, plot_mean)

CallPlotFreeEnergyZ ==
    /\ ncalls = 0
    /\ \E in \in SweepInputs, path \in Paths, plot_mean \in BOOLEAN :
          DoPlotFreeEnergyZ(in[1], in[2], path, plot_mean)

CallPlotTimeseries ==
    /\ ncalls = 0
    /\ \E m \in [1..2 -> Vecs], path \in Paths :
          DoPlotTimeseries(<<0, 1>>, Arr2(m), path)

CallPlotRotAcfsTime ==
    /\ ncalls = 0
    /\ \E normalize \in BOOLEAN, path \in Paths :
          DoPlotRotAcfsTime(normalize, path)

CallPlotForceAcfsTime ==
    /\ ncalls = 0
    /\ \E normalize \in BOOLEAN, path \in Paths :
          DoPlotForceAcfsTime(normalize, path)

CallPlotIntAcfsTime ==
    /\ ncalls = 0
    /\ \E path \in Paths : DoPlotIntAcfsTime(path)

CallPlotResistanceZ ==
    /\ ncalls = 0
    /\ \E in \in SweepInputs, path \in Paths, savefig \in BOOLEAN,
          addlegend \in BOOLEAN :
          DoPlotResistanceZ(in[1], in[2], path, "DSPC", 0, savefig, addlegend)

CallPlotDiffusionCoefficientZ ==
    /\ ncalls = 0
    /\ \E in \in ReducedInputs, path \in Paths :
          DoPlotDiffusionCoefficientZ(in[1], in[2], in[3], path)

CallPlotSymDiffusionCoefficientZ ==
    /\ ncalls = 0
    /\ \E in \in ReducedInputs, path \in Paths, savefig \in BOOLEAN,
          addlegend \in BOOLEAN :
          DoPlotSymDiffusionCoefficientZ(in[1], in[2], in[3], path, "DSPC", 0,
                                         savefig, addlegend)

CallPlotSymmetrizedFreeEnergy ==
    /\ ncalls = 0
    /\ \E in \in ReducedInputs, path \in Paths, savefig \in BOOLEAN,
          addlegend \in BOOLEAN :
          DoPlotSymmetrizedFreeEnergy(in[1], in[2], in[3], path, "DSPC", 0,
                                      savefig, addlegend)

CallPlotSymExpFreeEnergy ==
    /\ ncalls = 0
    /\ \E in \in ReducedInputs, path \in Paths :
          DoPlotSymExpFreeEnergy(in[1], in[2], in[2], in[2], in[3], path)

NextCall ==
    \/ CallPlotForces
    \/ CallPlotFreeEnergyZ
    \/ CallPlotTimeseries
    \/ CallPlotRotAcfsTime
    \/ CallPlotForceAcfsTime
    \/ CallPlotIntAcfsTime
    \/ CallPlotResistanceZ
    \/ CallPlotDiffusionCoefficientZ
    \/ CallPlotSymDiffusionCoefficientZ
    \/ CallPlotSymmetrizedFreeEnergy
    \/ CallPlotSymExpFreeEnergy

SpecCall == InitCall /\ [][NextCall]_vars

-----------------------------------------------------------------------------
(* Repeated calls of the autocorrelation views on the caller's array *)

InitAcf ==
    /\ figs = <<>>
    /\ gcf = 0
    /\ files = <<>>
    /\ acfs \in AcfInputs \cup {ExampleAcfs}
    /\ handles = {}
    /\ ncalls = 0
    /\ last = NoCall

AcfPlotRot ==
    /\ ncalls < MaxAcfCalls
    /\ \E normalize \in BOOLEAN : DoPlotRotAcfsTime(normalize, "racf.png")

AcfPlotForce ==
    /\ ncalls < MaxAcfCalls
    /\ \E normalize \in BOOLEAN : DoPlotForceAcfsTime(normalize, "acf.png")

AcfPlotInt ==
    /\ ncalls < MaxAcfCalls
    /\ DoPlotIntAcfsTime("int_acf.png")

NextAcf == AcfPlotRot \/ AcfPlotForce \/ AcfPlotInt

SpecAcf == InitAcf /\ [][NextAcf]_vars

-----------------------------------------------------------------------------
(* Several systems overlaid: calls threaded through returned pairs *)

\* what the caller may pass as figax: nothing, or a pair it was returned
FigAxChoices == {0} \cup handles

\* a call that creates a figure needs room in the explored registry
Room(figax) == figax # 0 \/ Len(figs) < MaxFigs

OverlayResistanceZ ==
    /\ ncalls < MaxCalls
    /\ \E sys \in Systems, figax \in FigAxChoices :
          /\ Room(figax)
          /\ DoPlotResistanceZ(sys.z, sys.sweeps, sys.path, sys.name, figax,
                               sys.finish, sys.finish)

OverlaySymDiffusionCoefficientZ ==
    /\ ncalls < MaxCalls
    /\ \E sys \in Systems, figax \in FigAxChoices :
          /\ Room(figax)
          /\ DoPlotSymDiffusionCoefficientZ(sys.z, sys.value, sys.err,
                sys.path, sys.name, figax, sys.finish, sys.finish)

OverlaySymmetrizedFreeEnergy ==
    /\ ncalls < MaxCalls
    /\ \E sys \in Systems, figax \in FigAxChoices :
          /\ Room(figax)
          /\ DoPlotSymmetrizedFreeEnergy(sys.z, sys.value, sys.err, sys.path,
                sys.name, figax, sys.finish, sys.finish)

OverlayDiffusionCoefficientZ ==
    /\ ncalls < MaxCalls
    /\ Room(0)
    /\ \E sys \in Systems :
          DoPlotDiffusionCoefficientZ(sys.z, sys.value, sys.err, sys.path)

NextOverlay ==
    \/ OverlayResistanceZ
    \/ OverlaySymDiffusionCoefficientZ
    \/ OverlaySymmetrizedFreeEnergy
    \/ OverlayDiffusionCoefficientZ

SpecOverlay == InitCall /\ [][NextOverlay]_vars

-----------------------------------------------------------------------------
(* What the most recent call did *)

StatOps == {"plot_forces", "plot_free_energy_z", "plot_resistance_z"}
ReducedOps == {"plot_diffusion_coefficient_z",
               "plot_sym_diffusion_coefficient_z",
               "plot_symmetrized_free_energy", "plot_sym_exp_free_energy"}
ProfileOps == StatOps \cup ReducedOps
OverlayOps == {"plot_resistance_z", "plot_sym_diffusion_coefficient_z",
               "plot_symmetrized_free_energy"}
NormalizedAcfOps == {"plot_rot_acfs_time", "plot_force_acfs_time"}

Completed == last.op # "none" /\ ~last.raised

\* the artists the axes of the call held before it
PreArtists ==
    IF last.ax \in 1..Len(last.pre.figs) THEN last.pre.figs[last.ax].artists
    ELSE <<>>

\* the artists the call added to its axes
Drawn ==
    IF last.ax \in 1..Len(figs)
    THEN SubSeq(figs[last.ax].artists, Len(PreArtists) + 1,
                Len(figs[last.ax].artists))
    ELSE <<>>

DrawnOf(role) == SelectSeq(Drawn, LAMBDA a : a.role = role)

\* the files the call wrote
Written == SubSeq(files, last.pre.nfiles + 1, Len(files))

\* the call draws a band: always, but for plot_mean=False
DrawsBand ==
    last.op \in ProfileOps
    /\ (last.op \in {"plot_forces", "plot_free_energy_z"} => last.plot_mean)

\* the number of columns of the data of the call
DataCols == IF last.op \in StatOps THEN NumCols(last.data) ELSE Len(last.data)

Range(s) == {s[i] : i \in 1..Len(s)}
MinOf(s) == CHOOSE m \in Range(s) : \A x \in Range(s) : m <= x
MaxOf(s) == CHOOSE m \in Range(s) : \A x \in Range(s) : m >= x

SumSq(s) == SumSeq([i \in 1..Len(s) |-> s[i] * s[i]])

-----------------------------------------------------------------------------
(* C1: normalization in the autocorrelation views leaves every sequence    *)
(* of the caller's collection holding the values it held before the call.  *)
C1_CallerDataUnchanged ==
    (last.op \in NormalizedAcfOps /\ last.normalize) => acfs = last.pre.acfs

(* C2, as stated: a completed call writes a file only when the caller      *)
(* asked for saving (savefig=True); otherwise it writes none and returns   *)
(* the figure/axis pair.                                                   *)
C2_SaveOnlyOnRequest ==
    Completed =>
        IF last.savefig THEN Len(Written) = 1
        ELSE Written = <<>> /\ last.ret = last.ax

(* C2, amended: the three overlay routines write the file at the given     *)
(* path exactly when savefig is true and return the figure/axis pair of    *)
(* the still open figure either way; every other routine always writes the *)
(* file at its fig_filename and returns nothing; a call that raises writes *)
(* nothing.                                                                *)
C2_SaveContract ==
    /\ Completed /\ last.hasflag =>
          /\ Written = IF last.savefig
                       THEN <<[path |-> last.path, fig |-> last.ax]>>
                       ELSE <<>>
          /\ last.ret = last.ax
          /\ last.ax \in 1..Len(figs)
          /\ last.ret \in handles
    /\ Completed /\ ~last.hasflag =>
          /\ Written = <<[path |-> last.path, fig |-> last.ax]>>
          /\ last.ret = 0
    /\ last.raised => Written = <<>>

C2_Witness ==
    /\ last.op = "plot_symmetrized_free_energy"
    /\ Completed
    /\ ~last.savefig
    /\ Written = <<>>
    /\ last.ret = 1
    /\ Len(figs[1].artists) = 2

(* C3: a profile call whose axis length differs from the column count of   *)
(* its data raises, and writes no file.                                    *)
C3_MismatchRaises ==
    (last.op \in ProfileOps /\ Len(last.z) # DataCols) =>
        last.raised /\ Written = <<>>

(* C4: a single sweep given as a vector of length N is drawn by            *)
(* plot_forces, plot_free_energy_z and plot_resistance_z with the vector   *)
(* itself as the mean and with an all-zero standard error of length N.     *)
C4_SingleSweepIsOneRow ==
    (/\ last.op \in StatOps
     /\ DrawsBand
     /\ last.data.ndim = 1
     /\ Len(last.z) = Len(last.data.v)) =>
        /\ ~last.raised
        /\ DrawnOf("main")[1].y1 = [j \in 1..Len(last.z) |-> ToRat(last.data.v[j])]
        /\ \A j \in 1..Len(last.z) :
              /\ DrawnOf("band")[1].y1[j] =
                    [a |-> ToRat(last.data.v[j]), s |-> 0, q |-> ToRat(0)]
              /\ DrawnOf("band")[1].y2[j] = DrawnOf("band")[1].y1[j]

(* C5: the band a profile routine draws is bounded, at every position, by  *)
(* value + error and value - error of the curve it is drawn around.        *)
C5_BandIsPlusMinusError ==
    (Completed /\ DrawsBand) =>
        LET line == DrawnOf("main")[1]
            band == DrawnOf("band")[1]
        IN  \A j \in 1..Len(band.x) :
              IF last.op \in StatOps
              THEN /\ band.y1[j].a = line.y1[j]
                   /\ band.y2[j].a = line.y1[j]
                   /\ band.y1[j].q = band.y2[j].q
                   /\ band.y1[j].s = (IF band.y1[j].q[1] = 0 THEN 0 ELSE 1)
                   /\ band.y2[j].s = -band.y1[j].s
              ELSE /\ band.y1[j] - line.y1[j] = last.err[j]
                   /\ line.y1[j] - band.y2[j] = last.err[j]

(* C6: a completed profile call leaves the x-limits it sets at             *)
(* (min(axis), -min(axis)), whatever the maximum of the axis.              *)
C6_MirroredLimits ==
    (Completed /\ last.op \in ProfileOps) =>
        figs[gcf].xlim = <<MinOf(last.z), -MinOf(last.z)>>

C6_Witness ==
    /\ last.op = "plot_forces"
    /\ Completed
    /\ last.z = SkewAxis
    /\ MaxOf(last.z) = 5
    /\ figs[gcf].xlim = <<-20, 20>>

(* C7: for a matrix of n >= 1 sweeps the mean drawn at column j is the     *)
(* average of the column and the standard error is the population          *)
(* standard deviation of the column over sqrt(n): its square is            *)
(* (n*sum(x^2) - sum(x)^2) / n^3, never negative; the worked example gives *)
(* mean [2,2,2] and standard error [1/sqrt(2), 0, 1/sqrt(2)].              *)
C7_MeanAndStandardError ==
    (Completed /\ last.op \in StatOps /\ DrawsBand /\ last.data.ndim = 2) =>
        LET n == Len(last.data.v)
            line == DrawnOf("main")[1]
            band == DrawnOf("band")[1]
        IN  /\ \A j \in 1..Len(last.z) :
                  LET col == Column(last.data.v, j)
                      mean == line.y1[j]
                      sq == band.y1[j].q
                  IN  /\ mean[2] > 0
                      /\ mean[1] * n = mean[2] * SumSeq(col)
                      /\ sq[2] > 0
                      /\ sq[1] >= 0
                      /\ sq[1] * n * n * n =
                            sq[2] * (n * SumSq(col) - SumSeq(col) * SumSeq(col))
            /\ (last.z = ExampleAxis /\ last.data = ExampleMatrix) =>
                  /\ line.y1 = <<ToRat(2), ToRat(2), ToRat(2)>>
                  /\ [j \in 1..3 |-> band.y1[j].q] = << <<1, 2>>, <<0, 1>>, <<1, 2>> >>

C7_Witness ==
    /\ last.op = "plot_resistance_z"
    /\ Completed
    /\ last.z = ExampleAxis
    /\ last.data = ExampleMatrix
    /\ DrawnOf("main")[1].y1 = <<ToRat(2), ToRat(2), ToRat(2)>>
    /\ DrawnOf("band")[1].y1[1] = [a |-> ToRat(2), s |-> 1, q |-> <<1, 2>>]
    /\ DrawnOf("band")[1].y2[3] = [a |-> ToRat(2), s |-> -1, q |-> <<1, 2>>]

(* C8: the normalized autocorrelation view draws exactly the sequences at  *)
(* the even positions 0, 2, 4, ... in order, each divided sample by sample *)
(* by its own first sample, so that its first drawn sample is 1; the       *)
(* integrated view draws the same positions with the values unchanged.     *)
C8_EvenPositionsNormalized ==
    LET pre == last.pre.acfs
        lines == DrawnOf("acf")
        src(k) == pre[2 * k - 1]
    IN  /\ (Completed /\ last.op \in NormalizedAcfOps /\ last.normalize) =>
              /\ Len(lines) = (Len(pre) + 1) \div 2
              /\ \A k \in 1..Len(lines) :
                    /\ Len(lines[k].y1) = Len(src(k))
                    /\ lines[k].y1[1] = ToRat(1)
                    /\ \A j \in 1..Len(src(k)) :
                          RatMul(lines[k].y1[j], src(k)[1]) = src(k)[j]
        /\ (Completed /\ last.op = "plot_int_acfs_time") =>
              /\ Len(lines) = (Len(pre) + 1) \div 2
              /\ \A k \in 1..Len(lines) : lines[k].y1 = src(k)

C8_Witness ==
    /\ last.op = "plot_force_acfs_time"
    /\ Completed
    /\ last.normalize
    /\ last.pre.acfs = ExampleAcfs
    /\ Len(DrawnOf("acf")) = 2
    /\ DrawnOf("acf")[1].y1 = << <<1, 1>>, <<1, 2>>, <<1, 4>>, <<1, 8>> >>
    /\ DrawnOf("acf")[2].y1 = << <<1, 1>>, <<1, 2>>, <<1, 4>>, <<1, 8>> >>

\* the labels of the main curves among the artists as
MainLabels(as) ==
    LET mains == SelectSeq(as, LAMBDA a : a.role = "main")
    IN  [i \in 1..Len(mains) |-> mains[i].label]

IsPrefix(s, t) == Len(s) <= Len(t) /\ SubSeq(t, 1, Len(s)) = s

(* C9: an overlay call given a figure/axis pair creates no figure, draws   *)
(* on the given axes and returns the same pair; given none it creates      *)
(* exactly one figure.  Every call keeps all the artists every axes held   *)
(* and adds one labelled main curve to its own, so the axes hold the main  *)
(* curves of the systems in call order.                                    *)
C9_OverlayKeepsCurves ==
    (Completed /\ last.op \in OverlayOps) =>
        /\ IF last.figax # 0
           THEN /\ Len(figs) = Len(last.pre.figs)
                /\ last.ax = last.figax
                /\ last.ret = last.figax
           ELSE /\ Len(figs) = Len(last.pre.figs) + 1
                /\ last.ret = Len(figs)
        /\ \A k \in 1..Len(last.pre.figs) :
              /\ IsPrefix(last.pre.figs[k].artists, figs[k].artists)
              /\ k # last.ax => figs[k].artists = last.pre.figs[k].artists
        /\ MainLabels(figs[last.ax].artists) =
              Append(MainLabels(PreArtists), last.sys_name)
        /\ Len(Drawn) > 0

C9_Witness ==
    /\ last.op \in OverlayOps
    /\ Completed
    /\ last.figax = 1
    /\ ncalls = 3
    /\ Len(figs) = 1
    /\ MainLabels(figs[1].artists) = <<"DSPC", "DPPC", "DSPC">>

(* C10: an overlay call sets the mirrored x-limits on the axes it drew on  *)
(* and leaves the x-limits of every other open axes as they were.          *)
C10_LimitsOnDrawnAxes ==
    (Completed /\ last.op \in OverlayOps) =>
        /\ figs[last.ax].xlim = <<last.z[1], -last.z[1]>>
        /\ \A k \in 1..Len(last.pre.figs) :
              k # last.ax => figs[k].xlim = last.pre.figs[k].xlim

====
